---- MODULE Spec2Model ----
(***************************************************************************)
(* A model of kpathdb's Store (src/src/store/index.ts) and its default     *)
(* ranker (src/src/db/index.ts) running against an IndexedDB object store. *)
(*                                                                         *)
(*   Spec       add / update / delete / get / getAll / transaction,        *)
(*              interleaved, against the engine's transactions             *)
(*   SpecQuery  query: one cursor walk, one success event per step         *)
(*   SpecSim    findSimilar: the full scan, the ranker, the slice          *)
(*   SpecSwap   findSimilar and setVectorSearchAlgorithm, interleaved      *)
(*   SpecRank   cosineSimilarity on pairs of vectors                       *)
(*   SpecRead   the reading calls and setVectorSearchAlgorithm             *)
(*   SpecBatch  calls made on one transaction without awaiting them        *)
(*   SpecAwait  calls made while the database is still opening             *)
(*   SpecOpen   KPathDB and DBProvider opening a configuration's database  *)
(*   SpecHook   useMutation's mutate                                       *)
(***************************************************************************)
EXTENDS Integers, Sequences, FiniteSets, TLC

VARIABLES
    store,      \* the object store's committed records (a set of records)
    hasSchema,  \* Store.schema is set
    ops,        \* the Store calls made so far, in call order: their promises
    txs,        \* txs[o]: the IDBTransaction created by call o
    qry,        \* the query call of SpecQuery
    sim,        \* the findSimilar call of SpecSim
    db,         \* the database: its open request and what it holds (SpecOpen, SpecAwait)
    hook,       \* the useMutation hook's state and its mutate calls (SpecHook)
    ranker      \* Store.vectorSearchAlgorithm

vars == <<store, hasSchema, ops, txs, qry, sim, db, hook, ranker>>

(***************************************************************************)
(* Bounds                                                                  *)
(***************************************************************************)
MaxKey == 2        \* primary keys 1..MaxKey in Spec
MaxOps == 2        \* Store calls per behaviour in Spec
MaxWrites == 2     \* calls a transaction's operation makes on its tx

Keys == 1..MaxKey
Texts == {"", "a", "b"}
Records == [id : Keys, text : Texts]

(***************************************************************************)
(* Values a promise settles with                                           *)
(***************************************************************************)
None == [tag |-> "none"]
Undefined == [tag |-> "undefined"]
VKey(k) == [tag |-> "key", key |-> k]
VRec(r) == [tag |-> "record", rec |-> r]
VRecs(s) == [tag |-> "records", recs |-> s]
VErr(n) == [tag |-> "error", name |-> n]
VBool(b) == [tag |-> "boolean", bool |-> b]

(***************************************************************************)
(* The schema of the example configuration: text is z.string().min(1)      *)
(***************************************************************************)
safeParse(record) == "text" \in DOMAIN record /\ record.text # ""

\* Mutant: the check of the schema is left out
Validates_Skipped(record) == TRUE

\* Store.add / Store.update: if (this.schema) { safeParse ... }
Validates(record) == hasSchema => safeParse(record)

(***************************************************************************)
(* The object store: what its requests do to a transaction's view          *)
(***************************************************************************)
HasKey(view, k) == \E s \in view : s.id = k

Lookup(view, k) == CHOOSE s \in view : s.id = k

RECURSIVE SortedByKey(_)
SortedByKey(view) ==
    IF view = {} THEN <<>>
    ELSE LET m == CHOOSE s \in view : \A u \in view : s.id <= u.id
         IN  <<m>> \o SortedByKey(view \ {m})

\* store.add(record): a new key only
IDBAdd(view, record) ==
    IF HasKey(view, record.id)
    THEN [ok |-> FALSE, value |-> VErr("ConstraintError"), view |-> view]
    ELSE [ok |-> TRUE, value |-> VKey(record.id), view |-> view \cup {record}]

\* store.put(record): insert or replace the whole record
IDBPut(view, record) ==
    [ok |-> TRUE, value |-> VKey(record.id),
     view |-> {s \in view : s.id # record.id} \cup {record}]

\* Mutant: store.delete(key) fails on a key that is not stored
IDBDelete_Strict(view, k) ==
    IF HasKey(view, k)
    THEN [ok |-> TRUE, value |-> Undefined, view |-> {s \in view : s.id # k}]
    ELSE [ok |-> FALSE, value |-> VErr("NotFoundError"), view |-> view]

\* store.delete(key)
IDBDelete(view, k) ==
    [ok |-> TRUE, value |-> Undefined, view |-> {s \in view : s.id # k}]

\* store.get(key)
IDBGet(view, k) ==
    [ok |-> TRUE,
     value |-> IF HasKey(view, k) THEN VRec(Lookup(view, k)) ELSE Undefined,
     view |-> view]

\* store.getAll()
IDBGetAll(view) ==
    [ok |-> TRUE, value |-> VRecs(SortedByKey(view)), view |-> view]

Exec(view, req) ==
    CASE req.type = "add" -> IDBAdd(view, req.arg.rec)
      [] req.type = "put" -> IDBPut(view, req.arg.rec)
      [] req.type = "delete" -> IDBDelete(view, req.arg.key)
      [] req.type = "get" -> IDBGet(view, req.arg.key)
      [] req.type = "getAll" -> IDBGetAll(view)

(***************************************************************************)
(* Promises and transactions                                               *)
(***************************************************************************)
\* new Promise((resolve, reject) => ...): the first resolve or reject wins
Settle(op, status, value) ==
    IF op.promise = "pending"
    THEN [op EXCEPT !.promise = status, !.value = value]
    ELSE op

NoTx == [state |-> "none", mode |-> "none", view |-> {}, reqs |-> <<>>]

\* db.transaction(this.storeName, mode)
NewTx(mode, reqs) == [state |-> "queued", mode |-> mode, view |-> {}, reqs |-> reqs]

\* A request, the Store method that made it, and whose promise its events
\* settle: the call's own, or that of a call made inside a transaction's operation
Request(kind, type, arg, inner) ==
    [kind |-> kind, type |-> type, arg |-> arg, inner |-> inner]

Resolved == {p \in 1..Len(ops) : ops[p].promise = "resolved"}

\* A call of a Store method by the program. call is the last call the
\* operation of a transaction call has made, writes counts the requests it made.
NewOp(kind, arg) ==
    [kind |-> kind, arg |-> arg, pc |-> "requested", promise |-> "pending",
     value |-> None, call |-> None, writes |-> 0, after |-> Resolved]

NewCall(kind, arg, status, value) ==
    [tag |-> "call", kind |-> kind, arg |-> arg, promise |-> status, value |-> value]

\* A call is made by the program (tx = 0, no transaction passed) or by the
\* operation of transaction call tx, which passes its transaction.
CanCall(tx) ==
    IF tx = 0
    THEN Len(ops) < MaxOps
    ELSE /\ tx \in 1..Len(ops)
         /\ ops[tx].kind = "transaction"
         /\ ops[tx].pc = "fn"
         /\ ops[tx].writes < MaxWrites

\* The operation of Store.transaction awaits each call it makes: a rejected
\* call rejects the operation's promise, and .catch(reject) passes it on.
FnRejects(op, err) == Settle([op EXCEPT !.pc = "done"], "rejected", err)

\* The call rejects before a request is made
RejectCall(kind, arg, tx, err) ==
    IF tx = 0
    THEN /\ ops' = Append(ops, [NewOp(kind, arg) EXCEPT
                                  !.pc = "done", !.promise = "rejected", !.value = err])
         /\ txs' = Append(txs, NoTx)
    ELSE /\ ops' = [ops EXCEPT ![tx] =
                      FnRejects([@ EXCEPT !.call = NewCall(kind, arg, "rejected", err)], err)]
         /\ txs' = txs

\* const transaction = tx ?? db.transaction(this.storeName, "readwrite");
\* const request = transaction.objectStore(this.storeName).<type>(arg)
IssueWrite(kind, type, arg, tx) ==
    IF tx = 0
    THEN /\ ops' = Append(ops, NewOp(kind, arg))
         /\ txs' = Append(txs, NewTx("readwrite", <<Request(kind, type, arg, FALSE)>>))
    ELSE IF txs[tx].mode = "readonly"
    THEN RejectCall(kind, arg, tx, VErr("ReadOnlyError"))
    ELSE /\ ops' = [ops EXCEPT ![tx].call = NewCall(kind, arg, "pending", None),
                               ![tx].writes = @ + 1,
                               ![tx].pc = "await"]
         /\ txs' = [txs EXCEPT ![tx].reqs = Append(@, Request(kind, type, arg, TRUE))]

\* Mutant: get and getAll open a readwrite transaction
IssueRead_Readwrite(kind, type, arg) ==
    /\ ops' = Append(ops, NewOp(kind, arg))
    /\ txs' = Append(txs, NewTx("readwrite", <<Request(kind, type, arg, FALSE)>>))

\* const tx = db.transaction(this.storeName, "readonly"); store.<type>(arg)
IssueRead(kind, type, arg) ==
    /\ ops' = Append(ops, NewOp(kind, arg))
    /\ txs' = Append(txs, NewTx("readonly", <<Request(kind, type, arg, FALSE)>>))

(***************************************************************************)
(* Store                                                                   *)
(***************************************************************************)
\* Mutant: add makes update's request, store.put(record)
add_Puts(record, tx) ==
    /\ CanCall(tx)
    /\ IF ~Validates(record)
       THEN RejectCall("add", VRec(record), tx, VErr("ValidationError"))
       ELSE IssueWrite("add", "put", VRec(record), tx)
    /\ UNCHANGED <<store, hasSchema, qry, sim, db, hook, ranker>>

add(record, tx) ==
    /\ CanCall(tx)
    /\ IF ~Validates(record)
       THEN RejectCall("add", VRec(record), tx, VErr("ValidationError"))
       ELSE IssueWrite("add", "add", VRec(record), tx)
    /\ UNCHANGED <<store, hasSchema, qry, sim, db, hook, ranker>>

update(record, tx) ==
    /\ CanCall(tx)
    /\ IF ~Validates(record)
       THEN RejectCall("update", VRec(record), tx, VErr("ValidationError"))
       ELSE IssueWrite("update", "put", VRec(record), tx)
    /\ UNCHANGED <<store, hasSchema, qry, sim, db, hook, ranker>>

delete(key, tx) ==
    /\ CanCall(tx)
    /\ IssueWrite("delete", "delete", VKey(key), tx)
    /\ UNCHANGED <<store, hasSchema, qry, sim, db, hook, ranker>>

get(key) ==
    /\ CanCall(0)
    /\ IssueRead("get", "get", VKey(key))
    /\ UNCHANGED <<store, hasSchema, qry, sim, db, hook, ranker>>

getAll ==
    /\ CanCall(0)
    /\ IssueRead("getAll", "getAll", Undefined)
    /\ UNCHANGED <<store, hasSchema, qry, sim, db, hook, ranker>>

\* const tx = db.transaction(this.storeName, mode); tx.onabort = tx.onerror = ...;
\* operation(tx): the operation starts running
transaction(mode) ==
    /\ CanCall(0)
    /\ ops' = Append(ops, [NewOp("transaction", [tag |-> "mode", mode |-> mode])
                             EXCEPT !.pc = "fn"])
    /\ txs' = Append(txs, NewTx(mode, <<>>))
    /\ UNCHANGED <<store, hasSchema, qry, sim, db, hook, ranker>>

\* operation(tx).then(resolve): the operation returns
FnReturn(o) ==
    /\ o \in 1..Len(ops)
    /\ ops[o].kind = "transaction"
    /\ ops[o].pc = "fn"
    /\ ops' = [ops EXCEPT ![o] =
                 Settle([@ EXCEPT !.pc = "done", !.call = None], "resolved", Undefined)]
    /\ UNCHANGED <<store, hasSchema, txs, qry, sim, db, hook, ranker>>

\* operation(tx) ... .catch(reject): the operation throws; nothing is done
\* to the transaction
FnThrow(o) ==
    /\ o \in 1..Len(ops)
    /\ ops[o].kind = "transaction"
    /\ ops[o].pc = "fn"
    /\ ops' = [ops EXCEPT ![o] =
                 Settle([@ EXCEPT !.pc = "done", !.call = None], "rejected", VErr("FnError"))]
    /\ UNCHANGED <<store, hasSchema, txs, qry, sim, db, hook, ranker>>

(***************************************************************************)
(* The engine: transactions run one request at a time, then commit or abort *)
(***************************************************************************)
Live(t) == txs[t].state \in {"queued", "active"}

\* Transactions on one object store: a readwrite transaction runs alone, and
\* transactions start in the order they were created.
CanStart(t) ==
    \A u \in 1..(t - 1) :
        Live(u) => (txs[u].mode = "readonly" /\ txs[t].mode = "readonly")

TxStart(t) ==
    /\ t \in 1..Len(txs)
    /\ txs[t].state = "queued"
    /\ CanStart(t)
    /\ txs' = [txs EXCEPT ![t].state = "active", ![t].view = store]
    /\ UNCHANGED <<store, hasSchema, ops, qry, sim, db, hook, ranker>>

\* request.onsuccess: add and get(All) resolve with request.result, update
\* and delete with nothing
OnSuccess(kind, result) ==
    IF kind \in {"update", "delete"} THEN Undefined ELSE result

\* request.onsuccess = () => resolve(...); request.onerror = () => reject(request.error)
\* The events of a call made inside a transaction's operation settle that
\* call, and the operation, which awaits it, goes on or rejects.
Deliver(op, inner, status, value) ==
    IF ~inner
    THEN Settle([op EXCEPT !.pc = "done"], status, value)
    ELSE LET o1 == [op EXCEPT !.call.promise = status, !.call.value = value]
         IN  IF status = "rejected" THEN FnRejects(o1, value)
             ELSE [o1 EXCEPT !.pc = "fn"]

\* tx.onabort = tx.onerror = () => reject(tx.error): set by Store.transaction only
OnAbort(op, err) ==
    IF op.kind = "transaction" THEN Settle(op, "rejected", err) ELSE op

\* The engine runs the transaction's next request and fires its success or
\* error event; an error event nobody cancels aborts the transaction.
DispatchRequest(t) ==
    /\ t \in 1..Len(txs)
    /\ txs[t].state = "active"
    /\ txs[t].reqs # <<>>
    /\ LET req == Head(txs[t].reqs)
           r == Exec(txs[t].view, req)
       IN  IF r.ok
           THEN /\ txs' = [txs EXCEPT ![t].view = r.view, ![t].reqs = Tail(@)]
                /\ ops' = [ops EXCEPT ![t] =
                             Deliver(@, req.inner, "resolved", OnSuccess(req.kind, r.value))]
           ELSE /\ txs' = [txs EXCEPT ![t].state = "aborted", ![t].reqs = <<>>]
                /\ ops' = [ops EXCEPT ![t] =
                             OnAbort(Deliver(@, req.inner, "rejected", r.value), r.value)]
    /\ UNCHANGED <<store, hasSchema, qry, sim, db, hook, ranker>>

\* Nothing is pending and no handler is running: the transaction commits
Quiet(t) ==
    /\ t \in 1..Len(txs)
    /\ txs[t].state = "active"
    /\ txs[t].reqs = <<>>
    /\ ops[t].pc = "done"

Commit(t) ==
    /\ Quiet(t)
    /\ txs' = [txs EXCEPT ![t].state = "committed"]
    /\ store' = IF txs[t].mode = "readwrite" THEN txs[t].view ELSE store
    /\ UNCHANGED <<hasSchema, ops, qry, sim, db, hook, ranker>>

\* The commit of what the transaction wrote fails (the quota is exceeded,
\* the disk fails): the transaction aborts after its requests have
\* succeeded; its abort event fires
AbortAtCommit(t) ==
    /\ Quiet(t)
    /\ txs[t].mode = "readwrite"
    /\ txs[t].view # store
    /\ txs' = [txs EXCEPT ![t].state = "aborted"]
    /\ ops' = [ops EXCEPT ![t] = OnAbort(@, VErr("QuotaExceededError"))]
    /\ UNCHANGED <<store, hasSchema, qry, sim, db, hook, ranker>>

(***************************************************************************)
(* Spec: the Store's calls against one object store                        *)
(***************************************************************************)
UniqueKeys(S) == \A r \in S, s \in S : r.id = s.id => r = s

NoQuery == [pc |-> "idle"]
NoSim == [pc |-> "idle"]

\* The database is open and holds the collection; no hook is mounted
NoDb == [status |-> "open"]
NoHook == [pc |-> "idle"]

\* this.vectorSearchAlgorithm = new CosineSimilaritySearch<T>()
DefaultRanker == "cosine"

\* The object store holds what earlier add and update calls left there
Init ==
    /\ hasSchema \in BOOLEAN
    /\ store \in {S \in SUBSET Records : UniqueKeys(S) /\ \A r \in S : Validates(r)}
    /\ ops = <<>>
    /\ txs = <<>>
    /\ qry = NoQuery
    /\ sim = NoSim
    /\ db = NoDb
    /\ hook = NoHook
    /\ ranker = DefaultRanker

Next ==
    \/ \E record \in Records, tx \in 0..MaxOps : add(record, tx)
    \/ \E record \in Records, tx \in 0..MaxOps : update(record, tx)
    \/ \E key \in Keys, tx \in 0..MaxOps : delete(key, tx)
    \/ \E key \in Keys : get(key)
    \/ getAll
    \/ \E mode \in {"readonly", "readwrite"} : transaction(mode)
    \/ \E o \in 1..MaxOps : FnReturn(o)
    \/ \E o \in 1..MaxOps : FnThrow(o)
    \/ \E t \in 1..MaxOps : TxStart(t)
    \/ \E t \in 1..MaxOps : DispatchRequest(t)
    \/ \E t \in 1..MaxOps : Commit(t)
    \/ \E t \in 1..MaxOps : AbortAtCommit(t)

Spec == Init /\ [][Next]_vars

(***************************************************************************)
(* Claims checked under Spec                                               *)
(***************************************************************************)
OpIds == 1..Len(ops)

\* The operation of transaction call o threw
Threw(o) ==
    /\ ops[o].kind = "transaction"
    /\ ops[o].pc = "done"
    /\ ops[o].value = VErr("FnError")

\* C1: a readwrite transaction whose operation made one or more calls on
\* the transaction and then threw rejects with the operation's error and is
\* aborted as a whole: when it ends, no record it wrote becomes visible.
C1_AtomicCompositeFailure ==
    [][\A o \in OpIds :
          (Threw(o) /\ ops[o].arg.mode = "readwrite" /\ ops[o].writes >= 1)
          => /\ ops'[o].promise = "rejected"
             /\ ops'[o].value = VErr("FnError")
             /\ txs'[o].state # "committed"
             /\ store' \subseteq store]_vars

\* A call of add or update with a record the schema refuses: the call just
\* made by the program, or by the operation of a transaction call
InvalidCall(kind, arg) ==
    /\ kind \in {"add", "update"}
    /\ hasSchema
    /\ ~safeParse(arg.rec)

ValidOnly(S) == \A r \in S : safeParse(r)

\* C2: with a schema, add and update of a record that fails it, with or
\* without a transaction passed, reject with a validation error, make no
\* request and leave the stored content as it was; no record that fails
\* the schema is ever stored.
C2_ValidationGate ==
    /\ [][/\ (Len(ops') = Len(ops) + 1 /\ InvalidCall(ops'[Len(ops')].kind, ops'[Len(ops')].arg))
             => /\ ops'[Len(ops')].promise = "rejected"
                /\ ops'[Len(ops')].value = VErr("ValidationError")
                /\ txs'[Len(ops')] = NoTx
                /\ store' = store
          /\ \A o \in OpIds :
                (/\ ops[o].pc = "fn"
                 /\ ops'[o].call # ops[o].call
                 /\ ops'[o].call # None
                 /\ InvalidCall(ops'[o].call.kind, ops'[o].call.arg))
                => /\ ops'[o].call.promise = "rejected"
                   /\ ops'[o].call.value = VErr("ValidationError")
                   /\ txs' = txs
                   /\ store' = store]_vars
    /\ [](hasSchema => /\ ValidOnly(store)
                       /\ \A t \in 1..Len(txs) : ValidOnly(txs[t].view))

C2_Witness ==
    \E o \in OpIds :
        /\ ops[o].kind = "transaction"
        /\ ops[o].writes >= 1
        /\ ops[o].call # None
        /\ InvalidCall(ops[o].call.kind, ops[o].call.arg)
        /\ ops[o].call.value = VErr("ValidationError")
        /\ \E p \in OpIds : ops[p].kind = "add" /\ ops[p].value = VErr("ValidationError")
        /\ store # {}

\* C3: Store.transaction never ends resolved for a transaction that
\* aborted: once the transaction has aborted its promise is rejected.
C3_AbortRejects ==
    \A o \in OpIds :
        (ops[o].kind = "transaction" /\ txs[o].state = "aborted")
        => ops[o].promise = "rejected"

\* The promise that the events of request req of transaction t settle, as
\* it is in the list of calls os
Awaiting(os, t, req) == IF req.inner THEN os[t].call ELSE os[t]

\* The engine runs the next request of transaction t in this step
Dispatched(t) == txs[t].reqs # <<>> /\ txs'[t].reqs # txs[t].reqs

\* C5: add of a record whose key is already stored rejects with a
\* constraint error and leaves the stored records as they were; no two
\* stored records share a key.
C5_Uniqueness ==
    /\ [][\A t \in 1..Len(txs) :
            (/\ Dispatched(t)
             /\ Head(txs[t].reqs).kind = "add"
             /\ HasKey(txs[t].view, Head(txs[t].reqs).arg.rec.id))
            => /\ Awaiting(ops', t, Head(txs[t].reqs)).promise = "rejected"
               /\ Awaiting(ops', t, Head(txs[t].reqs)).value = VErr("ConstraintError")
               /\ txs'[t].state = "aborted"
               /\ store' = store]_vars
    /\ [](/\ UniqueKeys(store)
          /\ \A t \in 1..Len(txs) : UniqueKeys(txs[t].view))

C5_Witness ==
    \E o \in OpIds :
        /\ ops[o].kind = "add"
        /\ ops[o].promise = "rejected"
        /\ ops[o].value = VErr("ConstraintError")
        /\ HasKey(store, ops[o].arg.rec.id)
        /\ Lookup(store, ops[o].arg.rec.id) # ops[o].arg.rec

Writes == {"add", "update", "delete", "transaction"}

\* C6: once add(r) of a valid record with a new key has resolved, it has
\* resolved with r's key, and a get of that key called afterwards (nothing
\* else writing) resolves with r.
C6_RoundTrip ==
    \A a \in OpIds, g \in OpIds :
        (/\ ops[a].kind = "add"
         /\ ops[a].promise = "resolved"
         /\ ops[g].kind = "get"
         /\ ops[g].arg.key = ops[a].arg.rec.id
         /\ a \in ops[g].after
         /\ ops[g].promise = "resolved"
         /\ \A w \in OpIds \ {a} : ops[w].kind \notin Writes)
        => /\ ops[a].value = VKey(ops[a].arg.rec.id)
           /\ ops[g].value = VRec(ops[a].arg.rec)

\* Call d is the only call that writes, apart from the calls in others
OnlyWrites(others) == \A w \in OpIds \ others : ops[w].kind \notin Writes

\* C11: delete of a key that is not stored resolves without an error and
\* leaves the stored records as they were; a get of that key called
\* afterwards resolves with undefined; a second delete of a key after a first
\* one has been committed changes nothing.
C11_DeleteIdempotence ==
    /\ [][\A t \in 1..Len(txs) :
            (/\ Dispatched(t)
             /\ Head(txs[t].reqs).kind = "delete"
             /\ ~HasKey(txs[t].view, Head(txs[t].reqs).arg.key))
            => /\ Awaiting(ops', t, Head(txs[t].reqs)).promise = "resolved"
               /\ Awaiting(ops', t, Head(txs[t].reqs)).value = Undefined
               /\ txs'[t].state = "active"
               /\ txs'[t].view = txs[t].view
               /\ store' = store]_vars
    /\ [][\A t \in 1..Len(txs), u \in 1..Len(txs) :
            (/\ u < t
             /\ ops[u].kind = "delete" /\ ops[t].kind = "delete"
             /\ ops[u].arg = ops[t].arg
             /\ txs[u].state = "committed"
             /\ OnlyWrites({u, t})
             /\ txs[t].state = "active" /\ txs'[t].state = "committed")
            => store' = store]_vars
    /\ [](\A d \in OpIds, g \in OpIds :
            (/\ ops[d].kind = "delete"
             /\ ops[d].promise = "resolved"
             /\ ops[g].kind = "get"
             /\ ops[g].arg = ops[d].arg
             /\ d \in ops[g].after
             /\ ops[g].promise = "resolved"
             /\ OnlyWrites({d})
             /\ ~HasKey(store, ops[d].arg.key))
            => /\ ops[d].value = Undefined
               /\ ops[g].value = Undefined)

C11_Witness ==
    /\ Len(ops) = 2
    /\ ops[1].kind = "delete" /\ ops[2].kind = "delete"
    /\ ops[1].arg = ops[2].arg
    /\ ops[1].promise = "resolved" /\ ops[2].promise = "resolved"
    /\ txs[1].state = "committed" /\ txs[2].state = "committed"

\* C17: once update(r) of a valid record has resolved, a get of r's key
\* called afterwards (nothing else writing) resolves with exactly r, whether
\* or not the key was stored before, and a get of another key with what is
\* stored under that key.
C17_UpdateUpsert ==
    \A u \in OpIds, g \in OpIds :
        (/\ ops[u].kind = "update"
         /\ ops[u].promise = "resolved"
         /\ ops[g].kind = "get"
         /\ u \in ops[g].after
         /\ ops[g].promise = "resolved"
         /\ OnlyWrites({u}))
        => IF ops[g].arg.key = ops[u].arg.rec.id
           THEN ops[g].value = VRec(ops[u].arg.rec)
           ELSE ops[g].value = IDBGet(store, ops[g].arg.key).value

SingleWrites == {"add", "update", "delete"}

\* C21: an add, update or delete called without a transaction resolves only
\* if the transaction it created commits: a call that has resolved never has
\* an aborted transaction, and once that transaction has ended (nothing else
\* writing) what it wrote is what is stored.
C21_ResolvedIsDurable ==
    \A o \in OpIds :
        (ops[o].kind \in SingleWrites /\ ops[o].promise = "resolved")
        => /\ txs[o].state # "aborted"
           /\ (~Live(o) /\ OnlyWrites({o})) => store = txs[o].view

\* C26: two add calls for the same key, the second made before the first
\* has resolved, each on its own transaction, nothing else writing, and the
\* key not stored before (so that not both find it stored): when both
\* transactions have ended exactly one call has resolved, the other has
\* rejected with a constraint error, and the record stored under the key is
\* that of the call that resolved.
C26_ConcurrentAdds ==
    \A a \in OpIds, b \in OpIds :
        (/\ a < b
         /\ ops[a].kind = "add" /\ ops[b].kind = "add"
         /\ ops[a].arg.rec.id = ops[b].arg.rec.id
         /\ a \notin ops[b].after
         /\ OnlyWrites({a, b})
         /\ txs[a].state \in {"committed", "aborted"}
         /\ txs[b].state \in {"committed", "aborted"}
         /\ "resolved" \in {ops[a].promise, ops[b].promise})
        => \E w \in {a, b} : \E l \in {a, b} \ {w} :
              /\ ops[w].promise = "resolved"
              /\ ops[l].promise = "rejected"
              /\ ops[l].value = VErr("ConstraintError")
              /\ HasKey(store, ops[w].arg.rec.id)
              /\ Lookup(store, ops[w].arg.rec.id) = ops[w].arg.rec

(***************************************************************************)
(* SpecAwait: a Store whose dbPromise is still pending when it is called   *)
(***************************************************************************)
Opening == [status |-> "opening"]
Failed(err) == [status |-> "failed", error |-> err]

\* Mutant: the database is awaited first, the schema is checked after it
AwaitDb_First(kind, arg) ==
    /\ db.status = "opening"
    /\ Len(ops) < MaxOps
    /\ ops' = Append(ops, [NewOp(kind, arg) EXCEPT !.pc = "awaitDb"])
    /\ txs' = Append(txs, NoTx)
    /\ UNCHANGED <<store, hasSchema, qry, sim, db, hook, ranker>>

\* A call made while dbPromise is pending: add and update check the schema
\* and throw, or the call stops at `const db = await this.dbPromise`
AwaitDb(kind, arg) ==
    /\ db.status = "opening"
    /\ Len(ops) < MaxOps
    /\ IF kind \in {"add", "update"} /\ ~Validates(arg.rec)
       THEN RejectCall(kind, arg, 0, VErr("ValidationError"))
       ELSE /\ ops' = Append(ops, [NewOp(kind, arg) EXCEPT !.pc = "awaitDb"])
            /\ txs' = Append(txs, NoTx)
    /\ UNCHANGED <<store, hasSchema, qry, sim, db, hook, ranker>>

\* The calls the program makes
Calls ==
    {[kind |-> "add", arg |-> VRec(r)] : r \in Records}
    \cup {[kind |-> "update", arg |-> VRec(r)] : r \in Records}
    \cup {[kind |-> "delete", arg |-> VKey(k)] : k \in Keys}
    \cup {[kind |-> "get", arg |-> VKey(k)] : k \in Keys}
    \cup {[kind |-> "getAll", arg |-> Undefined]}
    \cup {[kind |-> "transaction", arg |-> [tag |-> "mode", mode |-> m]] :
            m \in {"readonly", "readwrite"}}

\* After the await: the transaction a call creates and the request it makes
AfterAwait(op) ==
    CASE op.kind = "add" -> NewTx("readwrite", <<Request("add", "add", op.arg, FALSE)>>)
      [] op.kind = "update" -> NewTx("readwrite", <<Request("update", "put", op.arg, FALSE)>>)
      [] op.kind = "delete" -> NewTx("readwrite", <<Request("delete", "delete", op.arg, FALSE)>>)
      [] op.kind = "get" -> NewTx("readonly", <<Request("get", "get", op.arg, FALSE)>>)
      [] op.kind = "getAll" -> NewTx("readonly", <<Request("getAll", "getAll", op.arg, FALSE)>>)
      [] op.kind = "transaction" -> NewTx(op.arg.mode, <<>>)

\* dbPromise resolves: every call waiting for it goes on, in the order of
\* the calls
dbPromiseResolves ==
    /\ db.status = "opening"
    /\ db' = NoDb
    /\ ops' = [o \in 1..Len(ops) |->
                 IF ops[o].pc # "awaitDb" THEN ops[o]
                 ELSE [ops[o] EXCEPT !.pc = IF ops[o].kind = "transaction"
                                                 THEN "fn" ELSE "requested"]]
    /\ txs' = [o \in 1..Len(ops) |->
                 IF ops[o].pc # "awaitDb" THEN txs[o] ELSE AfterAwait(ops[o])]
    /\ UNCHANGED <<store, hasSchema, qry, sim, hook, ranker>>

\* dbPromise rejects: `await this.dbPromise` throws in every call waiting for it
dbPromiseRejects ==
    /\ db.status = "opening"
    /\ db' = Failed(VErr("OpenError"))
    /\ ops' = [o \in 1..Len(ops) |->
                 IF ops[o].pc # "awaitDb" THEN ops[o]
                 ELSE Settle([ops[o] EXCEPT !.pc = "done"], "rejected", VErr("OpenError"))]
    /\ UNCHANGED <<store, hasSchema, txs, qry, sim, hook, ranker>>

\* A call made after dbPromise has rejected
AwaitRejected(kind, arg) ==
    /\ db.status = "failed"
    /\ Len(ops) < MaxOps
    /\ RejectCall(kind, arg, 0,
                  IF kind \in {"add", "update"} /\ ~Validates(arg.rec)
                  THEN VErr("ValidationError") ELSE db.error)
    /\ UNCHANGED <<store, hasSchema, qry, sim, db, hook, ranker>>

AwaitStores == {{}, {[id |-> 1, text |-> "a"]}}

InitAwait ==
    /\ hasSchema \in BOOLEAN
    /\ store \in AwaitStores
    /\ ops = <<>>
    /\ txs = <<>>
    /\ qry = NoQuery
    /\ sim = NoSim
    /\ db = Opening
    /\ hook = NoHook
    /\ ranker = DefaultRanker

NextAwait ==
    \/ \E c \in Calls : AwaitDb(c.kind, c.arg)
    \/ dbPromiseResolves
    \/ dbPromiseRejects
    \/ \E c \in Calls : AwaitRejected(c.kind, c.arg)
    \/ (db.status = "open" /\ Next)

SpecAwait == InitAwait /\ [][NextAwait]_vars

(***************************************************************************)
(* Claims checked under SpecAwait                                          *)
(***************************************************************************)
\* C12: add and update with a schema check the record before they await the
\* database and before any transaction is opened: a call with a record that
\* fails the schema rejects at once, also while the database is being opened
\* or after opening has failed, it never gets a transaction, and a
\* transaction passed to it is left as it was.
C12_ValidatesFirst ==
    /\ [][/\ (Len(ops') = Len(ops) + 1 /\ InvalidCall(ops'[Len(ops')].kind, ops'[Len(ops')].arg))
             => /\ ops'[Len(ops')].pc = "done"
                /\ ops'[Len(ops')].promise = "rejected"
                /\ ops'[Len(ops')].value = VErr("ValidationError")
                /\ txs' = Append(txs, NoTx)
                /\ store' = store
          /\ \A o \in OpIds :
                (/\ ops[o].pc = "fn"
                 /\ ops'[o].call # ops[o].call
                 /\ ops'[o].call # None
                 /\ InvalidCall(ops'[o].call.kind, ops'[o].call.arg))
                => /\ txs'[o] = txs[o]
                   /\ txs'[o].state \in {"queued", "active"}
                   /\ ops'[o].call.value = VErr("ValidationError")]_vars
    /\ [](\A o \in OpIds :
            InvalidCall(ops[o].kind, ops[o].arg)
            => /\ txs[o] = NoTx
               /\ ops[o].pc = "done"
               /\ ops[o].value = VErr("ValidationError"))

C12_Witness ==
    /\ db.status = "opening"
    /\ Len(ops) = 2
    /\ InvalidCall(ops[1].kind, ops[1].arg)
    /\ ops[1].promise = "rejected"
    /\ ops[2].pc = "awaitDb"

(***************************************************************************)
(* SpecOpen: KPathDB and DBProvider open the database of a configuration,  *)
(* page load after page load, and hand out Stores                          *)
(***************************************************************************)
MaxVersion == 2    \* configurations have versions 1..MaxVersion
MaxSessions == 2   \* page loads per behaviour
MaxOpenOps == 2    \* Store calls per page load in SpecOpen

StoreNames == {"todos", "users"}
OpenIndexNames == {"completed"}
OpenKeys == {1}

\* DBConfig: a version and, for each store it declares, the store's indexes
Configs ==
    {[version |-> v, stores |-> f] :
       v \in 1..MaxVersion,
       f \in UNION {[D -> SUBSET OpenIndexNames] : D \in SUBSET StoreNames}}

\* db.objectStoreNames.contains(storeName)
Contains(objectStores, storeName) == storeName \in DOMAIN objectStores

\* Mutant: every declared store is created anew, with its declared indexes
CreateMissing_Recreates(config, objectStores) ==
    [n \in DOMAIN objectStores \cup DOMAIN config.stores |->
        IF n \in DOMAIN config.stores
        THEN [indexes |-> config.stores[n], records |-> {}]
        ELSE objectStores[n]]

\* The body of request.onupgradeneeded: for each declared store that the
\* database does not contain, createObjectStore and a createIndex for each
\* of its declared indexes
CreateMissing(config, objectStores) ==
    [n \in DOMAIN objectStores \cup DOMAIN config.stores |->
        IF Contains(objectStores, n)
        THEN objectStores[n]
        ELSE [indexes |-> config.stores[n], records |-> {}]]

\* Mutant: db.transaction takes the mode "versionchange"
dbTransaction_AnyMode(objectStores, storeName, mode) ==
    IF ~Contains(objectStores, storeName) THEN VErr("NotFoundError")
    ELSE None

\* db.transaction(this.storeName, mode): what it throws, if it throws
dbTransaction(objectStores, storeName, mode) ==
    IF ~Contains(objectStores, storeName) THEN VErr("NotFoundError")
    ELSE IF mode \notin {"readonly", "readwrite"} THEN VErr("TypeError")
    ELSE None

\* The mode of the transaction a Store method opens
Mode(kind) ==
    CASE kind \in {"createIndex", "deleteIndex"} -> "versionchange"
      [] kind = "add" -> "readwrite"
      [] kind = "get" -> "readonly"

\* A Store call: the Store's name, the method, its argument
OpenCall(name, kind, arg) ==
    [name |-> name, kind |-> kind, arg |-> arg, pc |-> "awaitDb",
     promise |-> "pending", value |-> None]

\* The call goes on after `await this.dbPromise`: dbPromise has rejected, or
\* the call opens its transaction, which may throw, and makes its request
Proceed(op, d) ==
    IF op.pc # "awaitDb" THEN op
    ELSE IF d.promise = "rejected"
    THEN [op EXCEPT !.pc = "done", !.promise = "rejected", !.value = d.error]
    ELSE LET thrown == dbTransaction(d.objectStores, op.name, Mode(op.kind))
         IN  IF thrown # None
             THEN [op EXCEPT !.pc = "done", !.promise = "rejected", !.value = thrown]
             ELSE [op EXCEPT !.pc = "request"]

NoDatabase ==
    [status |-> "none", promise |-> "pending", error |-> None, reports |-> {},
     config |-> [version |-> 0, stores |-> [n \in {} |-> {}]],
     version |-> 0, objectStores |-> [n \in {} |-> {}],
     otherTab |-> FALSE, via |-> "none", handles |-> {}, thrown |-> {}, sessions |-> 0,
     isInitialized |-> FALSE, stateError |-> None]

\* A page load: the build's configuration, and whether another tab still
\* holds the database open. A configuration changes only with its version.
PageLoad(via, config, otherTab) ==
    /\ db.status \in {"none", "open", "failed"}
    /\ db.sessions < MaxSessions
    /\ config.version = db.config.version => config = db.config
    /\ otherTab => db.version >= 1
    /\ db' = [db EXCEPT !.status = "requested", !.promise = "pending", !.error = None,
                        !.reports = {}, !.config = config, !.otherTab = otherTab,
                        !.via = via, !.thrown = {},
                        !.handles = IF via = "DBProvider" THEN DOMAIN config.stores ELSE {},
                        !.sessions = @ + 1,
                        !.isInitialized = (via = "DBProvider"), !.stateError = None]
    /\ ops' = <<>>
    /\ UNCHANGED <<store, hasSchema, txs, qry, sim, hook, ranker>>

\* new KPathDB(config): this.dbPromise = this.openDB()
KPathDB(config, otherTab) == PageLoad("KPathDB", config, otherTab)

\* DBProvider's effect: const db = initializeDB(config), which is not
\* awaited, a Store for each declared store, storesRef.current = stores,
\* setState({ isInitialized: true })
DBProvider(config, otherTab) == PageLoad("DBProvider", config, otherTab)

\* DBProvider's effect when `await import("../db")` rejects: the catch sets
\* the error state; the database is not opened and no Store is made
DBProviderImportFails(config) ==
    /\ db.status \in {"none", "open", "failed"}
    /\ db.sessions < MaxSessions
    /\ config.version = db.config.version => config = db.config
    /\ db' = [db EXCEPT !.status = "none", !.promise = "pending", !.error = None,
                        !.reports = {}, !.config = config, !.otherTab = FALSE,
                        !.via = "DBProvider", !.thrown = {}, !.handles = {},
                        !.sessions = @ + 1,
                        !.isInitialized = FALSE, !.stateError = VErr("ImportError")]
    /\ ops' = <<>>
    /\ UNCHANGED <<store, hasSchema, txs, qry, sim, hook, ranker>>

\* KPathDB.getStore(storeName): a Store for any name
getStore(storeName) ==
    /\ db.via = "KPathDB"
    /\ db' = [db EXCEPT !.handles = @ \cup {storeName}]
    /\ UNCHANGED <<store, hasSchema, ops, txs, qry, sim, hook, ranker>>

\* DBProvider's contextValue.getStore(name): the Store of storesRef, or it throws
contextGetStore(name) ==
    /\ db.via = "DBProvider"
    /\ name \notin db.handles
    /\ db' = [db EXCEPT !.thrown = @ \cup {name}]
    /\ UNCHANGED <<store, hasSchema, ops, txs, qry, sim, hook, ranker>>

\* The open needs an upgrade and another connection holds the database
\* open: the request gets a blocked event, for which there is no handler
onblocked ==
    /\ db.status = "requested"
    /\ db.config.version > db.version
    /\ db.otherTab
    /\ db' = [db EXCEPT !.status = "blocked", !.reports = @ \cup {"blocked"}]
    /\ UNCHANGED <<store, hasSchema, ops, txs, qry, sim, hook, ranker>>

\* The other tab is closed: a blocked open request goes on
OtherTabCloses ==
    /\ db.otherTab
    /\ db' = [db EXCEPT !.otherTab = FALSE,
                        !.status = IF @ = "blocked" THEN "requested" ELSE @]
    /\ UNCHANGED <<store, hasSchema, ops, txs, qry, sim, hook, ranker>>

\* request.onupgradeneeded
onupgradeneeded ==
    /\ db.status = "requested"
    /\ db.config.version > db.version
    /\ ~db.otherTab
    /\ db' = [db EXCEPT !.status = "upgraded", !.version = db.config.version,
                        !.objectStores = CreateMissing(db.config, @)]
    /\ UNCHANGED <<store, hasSchema, ops, txs, qry, sim, hook, ranker>>

\* request.onsuccess = () => resolve(request.result); the calls waiting for
\* dbPromise go on
onsuccess ==
    /\ \/ db.status = "upgraded"
       \/ db.status = "requested" /\ db.config.version = db.version
    /\ db' = [db EXCEPT !.status = "open", !.promise = "resolved"]
    /\ ops' = [o \in 1..Len(ops) |-> Proceed(ops[o], db')]
    /\ UNCHANGED <<store, hasSchema, txs, qry, sim, hook, ranker>>

\* request.onerror = () => reject(request.error): the database has a higher
\* version than the configuration (VersionError), or the engine denies
\* access to it; the calls waiting for dbPromise reject
onerror(err) ==
    /\ db.status = "requested"
    /\ (err = VErr("VersionError")) = (db.config.version < db.version)
    /\ db' = [db EXCEPT !.status = "failed", !.promise = "rejected", !.error = err,
                        !.reports = @ \cup {"error"}]
    /\ ops' = [o \in 1..Len(ops) |-> Proceed(ops[o], db')]
    /\ UNCHANGED <<store, hasSchema, txs, qry, sim, hook, ranker>>

\* A call of add, get, createIndex or deleteIndex on a Store
StoreCall(name, kind, arg) ==
    /\ name \in db.handles
    /\ Len(ops) < MaxOpenOps
    /\ ops' = Append(ops, IF db.promise = "pending" THEN OpenCall(name, kind, arg)
                          ELSE Proceed(OpenCall(name, kind, arg), db))
    /\ UNCHANGED <<store, hasSchema, txs, qry, sim, db, hook, ranker>>

\* The request of a call, carried out by the engine: store.add, store.get,
\* and, on a transaction that db.transaction has let through,
\* store.createIndex and store.deleteIndex with tx.oncomplete
RequestDone(o) ==
    /\ o \in 1..Len(ops)
    /\ ops[o].pc = "request"
    /\ LET op == ops[o]
           os == db.objectStores[op.name]
           fails == \/ op.kind = "add" /\ op.arg \in os.records
                    \/ op.kind = "createIndex" /\ op.arg \in os.indexes
           missing == op.kind = "deleteIndex" /\ op.arg \notin os.indexes
       IN  IF fails \/ missing
           THEN /\ ops' = [ops EXCEPT ![o] =
                             [@ EXCEPT !.pc = "done", !.promise = "rejected",
                                       !.value = IF missing THEN VErr("NotFoundError")
                                                 ELSE VErr("ConstraintError")]]
                /\ db' = db
           ELSE /\ ops' = [ops EXCEPT ![o] =
                             [@ EXCEPT !.pc = "done", !.promise = "resolved",
                                       !.value = IF op.kind = "add" THEN VKey(op.arg)
                                                 ELSE IF op.kind = "get" /\ op.arg \in os.records
                                                 THEN VKey(op.arg)
                                                 ELSE Undefined]]
                /\ db' = [db EXCEPT !.objectStores[op.name] =
                            CASE op.kind = "add" -> [@ EXCEPT !.records = @ \cup {op.arg}]
                              [] op.kind = "createIndex" -> [@ EXCEPT !.indexes = @ \cup {op.arg}]
                              [] op.kind = "deleteIndex" -> [@ EXCEPT !.indexes = @ \ {op.arg}]
                              [] OTHER -> @]
    /\ UNCHANGED <<store, hasSchema, txs, qry, sim, hook, ranker>>

InitOpen ==
    /\ hasSchema = FALSE
    /\ store = {}
    /\ ops = <<>>
    /\ txs = <<>>
    /\ qry = NoQuery
    /\ sim = NoSim
    /\ db = NoDatabase
    /\ hook = NoHook
    /\ ranker = DefaultRanker

NextOpen ==
    \/ \E config \in Configs, otherTab \in BOOLEAN : KPathDB(config, otherTab)
    \/ \E config \in Configs, otherTab \in BOOLEAN : DBProvider(config, otherTab)
    \/ \E config \in Configs : DBProviderImportFails(config)
    \/ \E storeName \in StoreNames : getStore(storeName)
    \/ \E name \in StoreNames : contextGetStore(name)
    \/ onblocked
    \/ OtherTabCloses
    \/ onupgradeneeded
    \/ onsuccess
    \/ \E err \in {VErr("VersionError"), VErr("UnknownError")} : onerror(err)
    \/ \E name \in StoreNames, key \in OpenKeys : StoreCall(name, "add", key)
    \/ \E name \in StoreNames, key \in OpenKeys : StoreCall(name, "get", key)
    \/ \E name \in StoreNames, indexName \in OpenIndexNames :
          StoreCall(name, "createIndex", indexName)
    \/ \E name \in StoreNames, indexName \in OpenIndexNames :
          StoreCall(name, "deleteIndex", indexName)
    \/ \E o \in 1..MaxOpenOps : RequestDone(o)

SpecOpen == InitOpen /\ [][NextOpen]_vars

(***************************************************************************)
(* Claims checked under SpecOpen                                           *)
(***************************************************************************)
\* The indexes of each object store of the database
Indexes(d) == [n \in DOMAIN d.objectStores |-> d.objectStores[n].indexes]

IndexCall(op) == op.kind \in {"createIndex", "deleteIndex"}

\* C13: createIndex and deleteIndex on a Store never resolve: once
\* dbPromise has settled they have rejected, and no step of such a call
\* changes the indexes of any object store.
C13_IndexCallsReject ==
    /\ [][\A o \in 1..Len(ops') :
            (/\ IndexCall(ops'[o])
             /\ (o > Len(ops) \/ ops'[o] # ops[o]))
            => Indexes(db') = Indexes(db)]_vars
    /\ [](\A o \in 1..Len(ops) :
            IndexCall(ops[o])
            => /\ ops[o].promise # "resolved"
               /\ db.promise # "pending" => ops[o].promise = "rejected")

C13_Witness ==
    /\ db.status = "open"
    /\ Len(ops) = 2
    /\ ops[1].kind = "createIndex" /\ ops[2].kind = "deleteIndex"
    /\ ops[1].name = ops[2].name
    /\ Contains(db.objectStores, ops[1].name)
    /\ ops[2].arg \in db.objectStores[ops[2].name].indexes
    /\ ops[1].value = VErr("TypeError") /\ ops[2].value = VErr("TypeError")

\* C14: once the database has been opened, each store the configuration
\* declares exists in it, with each index declared for that store.
C14_DeclaredExists ==
    db.status = "open"
    => \A n \in DOMAIN db.config.stores :
          /\ Contains(db.objectStores, n)
          /\ db.config.stores[n] \subseteq db.objectStores[n].indexes

\* C15: the upgrade leaves each object store that existed as it was, with
\* its indexes and its records, and upgrading what it has made once more
\* changes nothing.
C15_UpgradeAdditive ==
    [][db'.status = "upgraded"
       => /\ \A n \in DOMAIN db.objectStores :
                /\ Contains(db'.objectStores, n)
                /\ db'.objectStores[n] = db.objectStores[n]
          /\ CreateMissing(db.config, db'.objectStores) = db'.objectStores]_vars

C15_Witness ==
    /\ db.status = "upgraded"
    /\ db.sessions = 2
    /\ DOMAIN db.objectStores = StoreNames
    /\ db.objectStores["todos"].records # {}
    /\ db.objectStores["todos"].indexes = {}
    /\ db.objectStores["users"].records = {}
    /\ db.objectStores["users"].indexes # {}

\* C16: once the engine has reported an error or a blocked open, dbPromise
\* has rejected and every call made on a Store of this database has
\* rejected with that error: none is pending, none has resolved.
C16_OpenFailurePropagates ==
    db.reports # {}
    => /\ db.promise = "rejected"
       /\ \A o \in 1..Len(ops) :
             /\ ops[o].promise = "rejected"
             /\ ops[o].value = db.error

\* C19: no Store is handed out for a name the configuration does not
\* declare, and no call on such a Store is pending or has resolved.
C19_UndeclaredFailsFast ==
    /\ \A name \in db.handles : name \in DOMAIN db.config.stores
    /\ \A o \in 1..Len(ops) :
          ops[o].name \notin DOMAIN db.config.stores => ops[o].promise = "rejected"

\* C31: DBProvider's isInitialized is true only once the database has been
\* opened successfully, and when the open has failed the provider is in the
\* error state: error set, isInitialized false.
C31_InitializedAfterOpen ==
    db.via = "DBProvider"
    => /\ db.isInitialized => db.status = "open"
       /\ db.status = "failed" => (db.stateError # None /\ ~db.isInitialized)

(***************************************************************************)
(* SpecHook: useMutation, its mutate calls and the Store calls they make   *)
(***************************************************************************)
\* A todo with all its fields, and an item with the key and one field only
HookRecords == [id : Keys, text : {"", "a"}, completed : BOOLEAN]
PartialItems == [id : Keys, completed : BOOLEAN]

\* React.useState({ loading: false }) and the mutate calls made
NewHook == [loading |-> FALSE, error |-> None, calls |-> <<>>]

\* The Store call of mutate call c has been made
Delegated(c) == c.op <= Len(ops)

\* mutate call m waits for its Store call, which has settled
Settled(m) ==
    /\ hook.calls[m].pc = "await"
    /\ Delegated(hook.calls[m])
    /\ ops[hook.calls[m].op].promise # "pending"

\* mutate has set its state and is about to call the Store (the switch)
Switching ==
    /\ hook.calls # <<>>
    /\ hook.calls[Len(hook.calls)].pc = "await"
    /\ ~Delegated(hook.calls[Len(hook.calls)])

\* No mutate call is running: the event loop takes the next event
Idle == ~Switching /\ \A m \in 1..Len(hook.calls) : ~Settled(m)

\* mutate(operation, item), up to the Store call: setMutationState({ loading:
\* true, error: undefined }), and for an operation that is none of the three
\* the throw, the catch and return false. mutate has two parameters: a third
\* argument (options) is not read.
mutate(operation, item, options) ==
    /\ Idle
    /\ Len(ops) < MaxOps
    /\ Len(hook.calls) < MaxOps
    /\ IF operation \in {"add", "update", "delete"}
       THEN hook' = [loading |-> TRUE, error |-> None,
                     calls |-> Append(hook.calls,
                                 [operation |-> operation, item |-> item,
                                  op |-> Len(ops) + 1, pc |-> "await", result |-> None])]
       ELSE hook' = [loading |-> FALSE, error |-> VErr("Invalid database operation"),
                     calls |-> Append(hook.calls,
                                 [operation |-> operation, item |-> item,
                                  op |-> 0, pc |-> "done", result |-> VBool(FALSE)])]
    /\ UNCHANGED <<store, hasSchema, ops, txs, qry, sim, db, ranker>>

\* Mutant: the catch reports the error and still returns true
mutateSettles_True(m) ==
    /\ m \in 1..Len(hook.calls)
    /\ Settled(m)
    /\ LET op == ops[hook.calls[m].op]
       IN  hook' = [loading |-> FALSE,
                    error |-> IF op.promise = "resolved" THEN None ELSE op.value,
                    calls |-> [hook.calls EXCEPT ![m].pc = "done",
                                                 ![m].result = VBool(TRUE)]]
    /\ UNCHANGED <<store, hasSchema, ops, txs, qry, sim, db, ranker>>

\* The awaited Store call has settled: setMutationState({ loading: false })
\* and return true, or the catch: setMutationState({ loading: false, error })
\* and return false
mutateSettles(m) ==
    /\ m \in 1..Len(hook.calls)
    /\ Settled(m)
    /\ LET op == ops[hook.calls[m].op]
       IN  IF op.promise = "resolved"
           THEN hook' = [loading |-> FALSE, error |-> None,
                         calls |-> [hook.calls EXCEPT ![m].pc = "done",
                                                      ![m].result = VBool(TRUE)]]
           ELSE hook' = [loading |-> FALSE, error |-> op.value,
                         calls |-> [hook.calls EXCEPT ![m].pc = "done",
                                                      ![m].result = VBool(FALSE)]]
    /\ UNCHANGED <<store, hasSchema, ops, txs, qry, sim, db, ranker>>

\* await store.add(item) / store.update(item) / store.delete(item)
Switch(operation) ==
    /\ Switching
    /\ hook.calls[Len(hook.calls)].operation = operation

InitHook ==
    /\ hasSchema \in BOOLEAN
    /\ store \in {S \in SUBSET HookRecords : UniqueKeys(S) /\ \A r \in S : Validates(r)}
    /\ ops = <<>>
    /\ txs = <<>>
    /\ qry = NoQuery
    /\ sim = NoSim
    /\ db = NoDb
    /\ hook = NewHook
    /\ ranker = DefaultRanker

NextHook ==
    \/ \E operation \in {"add", "update"}, item \in HookRecords, options \in {"none"} :
          mutate(operation, item, options)
    \/ \E item \in PartialItems, options \in {"none", "partial"} :
          mutate("update", item, options)
    \/ \E operation \in {"delete", "other"}, key \in Keys : mutate(operation, key, "none")
    \/ (Switch("add") /\ add(hook.calls[Len(hook.calls)].item, 0))
    \/ (Switch("update") /\ update(hook.calls[Len(hook.calls)].item, 0))
    \/ (Switch("delete") /\ delete(hook.calls[Len(hook.calls)].item, 0))
    \/ \E m \in 1..MaxOps : mutateSettles(m)
    \/ \E t \in 1..MaxOps : Idle /\ TxStart(t)
    \/ \E t \in 1..MaxOps : Idle /\ DispatchRequest(t)
    \/ \E t \in 1..MaxOps : Idle /\ Commit(t)
    \/ \E t \in 1..MaxOps : Idle /\ AbortAtCommit(t)

SpecHook == InitHook /\ [][NextHook]_vars

(***************************************************************************)
(* Claims checked under SpecHook                                           *)
(***************************************************************************)
\* What a partial update with item makes of record r: item's fields, and
\* r's other fields as they were
Merged(r, item) ==
    [f \in DOMAIN r \cup DOMAIN item |-> IF f \in DOMAIN item THEN item[f] ELSE r[f]]

IsPartial(item) == item \in PartialItems

\* C18: mutate("update", item, {partial: true}) with an item that has the
\* key and some of the fields changes those fields of the stored record
\* with that key and leaves its other fields as they were: once the call
\* is done and its transaction has ended (nothing else writing), the stored
\* record has the item's fields and still has its other fields, and the
\* commit of the update puts the merged record in the place of the old one.
C18_PartialUpdate ==
    /\ [][\A m \in 1..Len(hook.calls) :
            LET c == hook.calls[m]
            IN  (/\ c.operation = "update"
                 /\ IsPartial(c.item)
                 /\ Delegated(c)
                 /\ txs[c.op].state = "active" /\ txs'[c.op].state = "committed"
                 /\ HasKey(store, c.item.id))
                => store' = (store \ {Lookup(store, c.item.id)})
                               \cup {Merged(Lookup(store, c.item.id), c.item)}]_vars
    /\ [](\A m \in 1..Len(hook.calls) :
            LET c == hook.calls[m]
            IN  (/\ c.operation = "update"
                 /\ IsPartial(c.item)
                 /\ c.pc = "done"
                 /\ ~Live(c.op)
                 /\ Len(hook.calls) = 1
                 /\ HasKey(store, c.item.id))
                => /\ Lookup(store, c.item.id).completed = c.item.completed
                   /\ "text" \in DOMAIN Lookup(store, c.item.id))

\* C20: mutate never rejects; it resolves with true when the Store call it
\* made has resolved and with false when that call has rejected, and when
\* it resolves loading is false and error is set exactly if the result is
\* false.
C20_MutateResult ==
    [][\A m \in 1..Len(hook.calls) :
          (hook.calls[m].pc = "await" /\ hook'.calls[m].pc # "await")
          => /\ hook'.calls[m].pc = "done"
             /\ hook'.calls[m].result \in {VBool(TRUE), VBool(FALSE)}
             /\ (hook'.calls[m].result = VBool(TRUE))
                   = (ops[hook.calls[m].op].promise = "resolved")
             /\ (hook'.calls[m].result = VBool(FALSE))
                   = (ops[hook.calls[m].op].promise = "rejected")
             /\ hook'.loading = FALSE
             /\ (hook'.error # None) = (hook'.calls[m].result = VBool(FALSE))]_vars

C20_Witness ==
    /\ Len(hook.calls) = 2
    /\ hook.calls[1].pc = "done" /\ hook.calls[2].pc = "done"
    /\ hook.calls[1].operation = "add" /\ hook.calls[2].operation = "add"
    /\ hook.calls[1].result = VBool(TRUE)
    /\ hook.calls[2].result = VBool(FALSE)
    /\ hook.error = VErr("ConstraintError")
    /\ ~hook.loading

(***************************************************************************)
(* SpecQuery: Store.query, one success event of the cursor request per step *)
(***************************************************************************)
MaxQueryKey == 4   \* primary keys 1..MaxQueryKey in SpecQuery
MaxLimit == 3      \* options.limit is at most MaxLimit

QueryRecords == [id : 1..MaxQueryKey, text : {"a", "b"}]

\* The predicates passed: none, one that holds of the records with text "a",
\* and one that does so and throws on a record with text "b"
Predicates == {"none", "isA", "isAThrowsOnB"}

PredicateThrows(predicate, record) ==
    predicate = "isAThrowsOnB" /\ record.text = "b"

\* !predicate || predicate(cursor.value)
Matches(predicate, record) ==
    predicate = "none" \/ record.text = "a"

\* The object store's indexes (the configuration's indexes, made on upgrade)
IndexNames == {"text"}

\* The order of a cursor: by primary key, or by the index's key and then the
\* primary key
Before(indexName, r, s) ==
    IF indexName = "text" /\ r.text # s.text
    THEN r.text = "a"
    ELSE r.id < s.id

RECURSIVE Ascending(_, _)
Ascending(indexName, S) ==
    IF S = {} THEN <<>>
    ELSE LET m == CHOOSE r \in S : \A s \in S \ {r} : Before(indexName, r, s)
         IN  <<m>> \o Ascending(indexName, S \ {m})

Reverse(seq) == [i \in 1..Len(seq) |-> seq[Len(seq) + 1 - i]]

\* Mutant: the cursor is opened backwards unless "prev" is asked for
Traversal_Backwards(S, indexName, direction) ==
    IF direction = "prev" THEN Ascending(indexName, S)
    ELSE Reverse(Ascending(indexName, S))

\* target.openCursor(options?.range, options?.direction), no range
Traversal(S, indexName, direction) ==
    IF direction = "prev" THEN Reverse(Ascending(indexName, S))
    ELSE Ascending(indexName, S)

\* query(predicate, options): the transaction, the target, the cursor request
query(predicate, indexName, direction, hasLimit, limit) ==
    /\ qry.pc = "idle"
    /\ LET q == [predicate |-> predicate, indexName |-> indexName,
                 direction |-> direction, hasLimit |-> hasLimit, limit |-> limit,
                 order |-> <<>>, pos |-> 1, results |-> <<>>, evaluated |-> {},
                 pc |-> "cursor", tx |-> "active", mode |-> "readonly",
                 promise |-> "pending", value |-> None]
       IN  IF indexName # "" /\ indexName \notin IndexNames
           THEN \* store.index(name) throws inside the promise's executor
                qry' = [q EXCEPT !.pc = "done", !.promise = "rejected",
                                 !.value = VErr("NotFoundError")]
           ELSE qry' = [q EXCEPT !.order = Traversal(store, indexName, direction)]
    /\ UNCHANGED <<store, hasSchema, ops, txs, sim, db, hook, ranker>>

\* Mutant: the limit is passed only when more than limit records are held
LimitReached_Gt(q, results) ==
    q.hasLimit /\ q.limit # 0 /\ Len(results) > q.limit

\* Mutant: no early return, the cursor is walked to its end
LimitReached_Never(q, results) == FALSE

\* Mutant: a limit of 0 is a limit, options.limit !== undefined && ...
LimitReached_Zero(q, results) ==
    q.hasLimit /\ Len(results) >= q.limit

\* options?.limit && results.length >= options.limit
LimitReached(q, results) ==
    q.hasLimit /\ q.limit # 0 /\ Len(results) >= q.limit

\* request.onsuccess of the cursor request
CursorSuccess ==
    /\ qry.pc = "cursor"
    /\ IF qry.pos <= Len(qry.order)
       THEN LET value == qry.order[qry.pos]
                called == IF qry.predicate = "none" THEN qry.evaluated
                          ELSE qry.evaluated \cup {qry.pos}
                results == IF Matches(qry.predicate, value)
                           THEN Append(qry.results, value) ELSE qry.results
            IN  IF PredicateThrows(qry.predicate, value)
                THEN \* the handler throws: the engine aborts the transaction,
                     \* and the request, which is done, gets no error event
                     qry' = [qry EXCEPT !.evaluated = called, !.pc = "done",
                                        !.tx = "aborted"]
                ELSE IF LimitReached(qry, results)
                THEN qry' = [qry EXCEPT !.evaluated = called, !.results = results,
                                        !.pc = "done", !.promise = "resolved",
                                        !.value = VRecs(results)]
                ELSE \* cursor.continue()
                     qry' = [qry EXCEPT !.evaluated = called, !.results = results,
                                        !.pos = @ + 1]
       ELSE qry' = [qry EXCEPT !.pc = "done", !.promise = "resolved",
                               !.value = VRecs(qry.results)]
    /\ UNCHANGED <<store, hasSchema, ops, txs, sim, db, hook, ranker>>

\* request.onerror = () => reject(request.error): the engine fails the
\* pending cursor request and aborts the transaction
CursorError ==
    /\ qry.pc = "cursor"
    /\ qry' = [qry EXCEPT !.pc = "done", !.tx = "aborted", !.promise = "rejected",
                          !.value = VErr("UnknownError")]
    /\ UNCHANGED <<store, hasSchema, ops, txs, sim, db, hook, ranker>>

\* No request is pending: the readonly transaction completes
QueryCommit ==
    /\ qry.pc = "done"
    /\ qry.tx = "active"
    /\ qry' = [qry EXCEPT !.tx = "committed"]
    /\ UNCHANGED <<store, hasSchema, ops, txs, sim, db, hook, ranker>>

InitQuery ==
    /\ hasSchema = FALSE
    /\ store \in {S \in SUBSET QueryRecords : UniqueKeys(S)}
    /\ ops = <<>>
    /\ txs = <<>>
    /\ qry = NoQuery
    /\ sim = NoSim
    /\ db = NoDb
    /\ hook = NoHook
    /\ ranker = DefaultRanker

NextQuery ==
    \/ \E predicate \in Predicates, indexName \in {"", "text", "missing"},
          direction \in {"next", "prev"}, hasLimit \in BOOLEAN, limit \in -1..MaxLimit :
          /\ (~hasLimit => limit = 0)
          /\ query(predicate, indexName, direction, hasLimit, limit)
    \/ CursorSuccess
    \/ CursorError
    \/ QueryCommit

SpecQuery == InitQuery /\ [][NextQuery]_vars

(***************************************************************************)
(* Claims checked under SpecQuery                                          *)
(***************************************************************************)
\* C4: no operation's promise is still pending once its transaction has
\* completed or aborted.
C4_SettledWithTransaction ==
    (qry.pc # "idle" /\ qry.tx \in {"committed", "aborted"}) => qry.promise # "pending"

Take(seq, n) == SubSeq(seq, 1, IF n < Len(seq) THEN n ELSE Len(seq))

\* The records of the traversal that satisfy the query's predicate
Matching(q) ==
    SelectSeq(Traversal(store, q.indexName, q.direction),
              LAMBDA r : Matches(q.predicate, r))

\* C7: with a limit n >= 1 a query resolves with exactly the first
\* min(n, m) of the m records that satisfy the predicate, in traversal
\* order; without a limit, with all m of them.
C7_CursorLimit ==
    (qry.pc # "idle" /\ qry.promise = "resolved")
    => /\ (~qry.hasLimit) => qry.value = VRecs(Matching(qry))
       /\ (qry.hasLimit /\ qry.limit >= 1)
          => qry.value = VRecs(Take(Matching(qry), qry.limit))

C7_Witness ==
    /\ qry.pc = "done"
    /\ qry.promise = "resolved"
    /\ qry.predicate = "isA"
    /\ qry.hasLimit
    /\ qry.limit = 2
    /\ Len(Matching(qry)) = 3
    /\ Cardinality(store) = 4
    /\ Len(qry.value.recs) = 2

\* The place in the traversal of the n-th record that satisfies the predicate
RECURSIVE NthMatch(_, _, _)
NthMatch(q, n, from) ==
    IF Matches(q.predicate, Traversal(store, q.indexName, q.direction)[from])
    THEN IF n = 1 THEN from ELSE NthMatch(q, n - 1, from + 1)
    ELSE NthMatch(q, n, from + 1)

\* C8: once the n matching records of a limit n are collected, the cursor
\* is not advanced again and the predicate has been evaluated on no record
\* after the n-th match.
C8_StopsAtLimit ==
    (qry.pc # "idle" /\ qry.hasLimit /\ qry.limit >= 1 /\ Len(qry.results) >= qry.limit)
    => /\ qry.pc = "done"
       /\ qry.pos = NthMatch(qry, qry.limit, 1)
       /\ \A i \in qry.evaluated : i <= NthMatch(qry, qry.limit, 1)

C8_Witness ==
    /\ qry.pc = "done"
    /\ qry.tx = "committed"
    /\ qry.predicate = "isA"
    /\ qry.hasLimit
    /\ qry.limit = 2
    /\ Len(qry.results) = 2
    /\ qry.pos < Len(qry.order)
    /\ \E i \in (qry.pos + 1)..Len(qry.order) : qry.order[i].text = "a"

\* query() with no predicate and no options (the cursor's direction is then
\* "next", no index, no limit)
Unfiltered(q) ==
    /\ q.predicate = "none"
    /\ q.indexName = ""
    /\ q.direction = "next"
    /\ ~q.hasLimit

\* C28: query() with no predicate and no options resolves with the sequence
\* of records getAll() resolves with on the same stored content: all
\* records, in ascending order of their primary key.
C28_QueryIsGetAll ==
    (qry.pc # "idle" /\ qry.promise = "resolved" /\ Unfiltered(qry))
    => /\ qry.value = IDBGetAll(store).value
       /\ Len(qry.value.recs) = Cardinality(store)
       /\ \A i \in 1..Len(qry.value.recs), j \in 1..Len(qry.value.recs) :
             i < j => qry.value.recs[i].id < qry.value.recs[j].id

C28_Witness ==
    /\ qry.pc = "done"
    /\ qry.promise = "resolved"
    /\ Unfiltered(qry)
    /\ Cardinality(store) = 3
    /\ [i \in 1..3 |-> qry.value.recs[i].id] = <<1, 2, 4>>

\* C29: a query with limit 0 walks the whole cursor and resolves with every
\* record that satisfies the predicate, as the query without a limit does,
\* and not with an empty result: each success event whose handler does not
\* throw advances the cursor.
C29_LimitZeroIsNoLimit ==
    (qry.pc # "idle" /\ qry.hasLimit /\ qry.limit = 0)
    => /\ qry.promise = "resolved"
          => /\ qry.value = VRecs(Matching(qry))
             /\ qry.pos = Len(qry.order) + 1
       /\ (/\ qry.pc = "cursor"
           /\ qry.pos <= Len(qry.order)
           /\ ~PredicateThrows(qry.predicate, qry.order[qry.pos]))
          => ENABLED (CursorSuccess /\ qry'.pc = "cursor" /\ qry'.pos = qry.pos + 1)

C29_Witness ==
    /\ qry.pc = "done"
    /\ qry.promise = "resolved"
    /\ qry.hasLimit
    /\ qry.limit = 0
    /\ qry.predicate = "isA"
    /\ Len(qry.value.recs) = 2
    /\ Cardinality(store) = 3

(***************************************************************************)
(* The default ranker: CosineSimilaritySearch                              *)
(***************************************************************************)
RECURSIVE Sum(_, _)
Sum(f, n) == IF n = 0 THEN 0 ELSE f[n] + Sum(f, n - 1)

\* vecA.reduce((sum, a, i) => sum + a * (vecB[i] || 0), 0)
Dot(vecA, vecB) ==
    Sum([i \in 1..Len(vecA) |-> vecA[i] * (IF i <= Len(vecB) THEN vecB[i] ELSE 0)],
        Len(vecA))

\* vec.reduce((sum, a) => sum + a * a, 0), the square of the norm
Norm2(vec) == Sum([i \in 1..Len(vec) |-> vec[i] * vec[i]], Len(vec))

\* Mutant: no test for a norm of 0, the score is dot / (normA * normB) = 0 / 0
cosineSimilarity_Unguarded(vecA, vecB) ==
    LET dot == Dot(vecA, vecB)
    IN  [num |-> (IF dot < 0 THEN -1 ELSE 1) * dot * dot,
         den |-> Norm2(vecA) * Norm2(vecB)]

\* Mutant: both norms are taken over the shorter vector's indices only
cosineSimilarity_Truncates(vecA, vecB) ==
    LET n == IF Len(vecA) < Len(vecB) THEN Len(vecA) ELSE Len(vecB)
        dot == Dot(vecA, vecB)
        normA2 == Norm2(SubSeq(vecA, 1, n))
        normB2 == Norm2(SubSeq(vecB, 1, n))
    IN  IF normA2 = 0 \/ normB2 = 0
        THEN [num |-> 0, den |-> 1]
        ELSE [num |-> (IF dot < 0 THEN -1 ELSE 1) * dot * dot, den |-> normA2 * normB2]

\* The score c = dot / (normA * normB), or 0 when a norm is 0, kept as the
\* exact fraction num / den = sgn(c) * c^2 (den > 0), which orders as c does:
\* 1, 1/2 and 0 stand for the cosines 1, 0.707.. and 0. On the vectors of
\* SimVectors the floating-point scores are ordered, and tied, in the same way.
cosineSimilarity(vecA, vecB) ==
    LET dot == Dot(vecA, vecB)
        normA2 == Norm2(vecA)
        normB2 == Norm2(vecB)
    IN  IF normA2 = 0 \/ normB2 = 0
        THEN [num |-> 0, den |-> 1]
        ELSE [num |-> (IF dot < 0 THEN -1 ELSE 1) * dot * dot, den |-> normA2 * normB2]

\* a.score < b.score
ScoreLess(a, b) == a.num * b.den < b.num * a.den

HasVector(record) == "vector" \in DOMAIN record

\* records.map((record) => ({ record, score: cosineSimilarity(queryVector, record.vector) }))
Scored(queryVector, records) ==
    [i \in 1..Len(records) |->
        [record |-> records[i], score |-> cosineSimilarity(queryVector, records[i].vector)]]

\* Mutant: the comparator is a.score - b.score
compare_Ascending(a, b) ==
    IF ScoreLess(b.score, a.score) THEN 1
    ELSE IF ScoreLess(a.score, b.score) THEN -1 ELSE 0

\* (a, b) => b.score - a.score, its sign
compare(a, b) ==
    IF ScoreLess(a.score, b.score) THEN 1
    ELSE IF ScoreLess(b.score, a.score) THEN -1 ELSE 0

\* Array.prototype.sort(compare) is stable: an item goes before the first of
\* the items before it that it has to precede
RECURSIVE sort(_)
sort(items) ==
    IF items = <<>> THEN <<>>
    ELSE LET sorted == sort(SubSeq(items, 1, Len(items) - 1))
             x == items[Len(items)]
             k == Cardinality({j \in 1..Len(sorted) :
                                 \A i \in 1..j : compare(x, sorted[i]) >= 0})
         IN  SubSeq(sorted, 1, k) \o <<x>> \o SubSeq(sorted, k + 1, Len(sorted))

\* CosineSimilaritySearch.search
search(queryVector, records) == sort(Scored(queryVector, records))

\* Array.prototype.slice(0, end): a negative end counts from the array's end
Slice(seq, end) ==
    LET to == IF end < 0 THEN Len(seq) + end ELSE end
    IN  SubSeq(seq, 1, IF to < 0 THEN 0 ELSE IF to > Len(seq) THEN Len(seq) ELSE to)

(***************************************************************************)
(* SpecSim: Store.findSimilar                                              *)
(***************************************************************************)
DefaultLimit == 5      \* limit: number = 5
MaxSimRecords == 3     \* records with any vector of SimVectors, or none
MaxSimLimit == 3       \* a limit passed is in -1..MaxSimLimit

SimVectors == {<<1, 0>>, <<0, 1>>, <<1, 1>>, <<0, 0>>, <<>>}
QueryVectors == {<<1, 0>>, <<1, 1>>, <<0, 0>>, <<>>}

\* The rankers a Store is given: the default one, and one that scores every
\* record 0 and so keeps the order it is given, reading no vector
Rankers == {"cosine", "constant"}

\* this.vectorSearchAlgorithm.search(queryVector, records)
Rank(algorithm, queryVector, records) ==
    IF algorithm = "cosine"
    THEN search(queryVector, records)
    ELSE [i \in 1..Len(records) |-> [record |-> records[i], score |-> [num |-> 0, den |-> 1]]]

\* The fields of a record besides its key: a vector, or none
SimFields == {[vector |-> v] : v \in SimVectors} \cup {[novector |-> TRUE]}

SimRecord(id, fields) ==
    IF HasVector(fields) THEN [id |-> id, vector |-> fields.vector] ELSE [id |-> id]

\* Up to MaxSimRecords records, and after them none or DefaultLimit more,
\* so that the collection can hold more than DefaultLimit records
SimStores ==
    {{SimRecord(i, fs[i]) : i \in 1..Len(fs)}
         \cup {[id |-> Len(fs) + j, vector |-> <<0, 1>>] : j \in 1..more} :
       fs \in UNION {[1..n -> SimFields] : n \in 0..MaxSimRecords},
       more \in {0, DefaultLimit}}

\* findSimilar(queryVector, limit = 5): await this.getAll()
findSimilar(queryVector, hasLimit, limit) ==
    /\ sim.pc = "idle"
    /\ sim' = [pc |-> "getAll", queryVector |-> queryVector, hasLimit |-> hasLimit,
               limit |-> IF hasLimit THEN limit ELSE DefaultLimit,
               mode |-> "readonly", calledWith |-> ranker,
               promise |-> "pending", value |-> None]
    /\ UNCHANGED <<store, hasSchema, ops, txs, qry, db, hook, ranker>>

\* setVectorSearchAlgorithm(algorithm)
setVectorSearchAlgorithm(algorithm) ==
    /\ ranker' = algorithm
    /\ UNCHANGED <<store, hasSchema, ops, txs, qry, sim, db, hook>>

\* search(queryVector, records).slice(0, limit) with the ranker algorithm on
\* getAll's result; the default ranker's cosineSimilarity throws a TypeError
\* on a record without a vector (vecB[i], or vecB.reduce when the query
\* vector is empty), and findSimilar rejects with it
RanksWith(algorithm, records) ==
    /\ sim.pc = "getAll"
    /\ IF algorithm = "cosine" /\ \E i \in 1..Len(records) : ~HasVector(records[i])
       THEN sim' = [sim EXCEPT !.pc = "done", !.promise = "rejected",
                               !.value = VErr("TypeError")]
       ELSE sim' = [sim EXCEPT !.pc = "done", !.promise = "resolved",
                               !.value = [tag |-> "ranked",
                                          items |-> Slice(Rank(algorithm, sim.queryVector, records),
                                                          sim.limit)]]
    /\ UNCHANGED <<store, hasSchema, ops, txs, qry, db, hook, ranker>>

\* Mutant: the ranker is read before the await, when findSimilar is called
FindSimilarRanks_Captured == RanksWith(sim.calledWith, SortedByKey(store))

\* Mutant: the records without a vector are left out of the ranking
FindSimilarRanks_Skips ==
    RanksWith(ranker, SelectSeq(SortedByKey(store), HasVector))

\* getAll has resolved:
\* return this.vectorSearchAlgorithm.search(queryVector, records).slice(0, limit)
FindSimilarRanks == RanksWith(ranker, SortedByKey(store))

\* getAll has rejected (request.onerror): findSimilar rejects with its error
FindSimilarFails ==
    /\ sim.pc = "getAll"
    /\ sim' = [sim EXCEPT !.pc = "done", !.promise = "rejected",
                          !.value = VErr("UnknownError")]
    /\ UNCHANGED <<store, hasSchema, ops, txs, qry, db, hook, ranker>>

InitSim ==
    /\ hasSchema = FALSE
    /\ store \in SimStores
    /\ ops = <<>>
    /\ txs = <<>>
    /\ qry = NoQuery
    /\ sim = NoSim
    /\ db = NoDb
    /\ hook = NoHook
    /\ ranker = DefaultRanker

NextSim ==
    \/ \E queryVector \in QueryVectors, hasLimit \in BOOLEAN, limit \in -1..MaxSimLimit :
          /\ (~hasLimit => limit = 0)
          /\ findSimilar(queryVector, hasLimit, limit)
    \/ FindSimilarRanks
    \/ FindSimilarFails

SpecSim == InitSim /\ [][NextSim]_vars

\* SpecSwap: findSimilar calls and setVectorSearchAlgorithm calls, interleaved
NextSwap ==
    \/ NextSim
    \/ \E algorithm \in Rankers : setVectorSearchAlgorithm(algorithm)

SpecSwap == InitSim /\ [][NextSwap]_vars

(***************************************************************************)
(* Claims checked under SpecSim                                            *)
(***************************************************************************)
Ranked == sim.pc = "done" /\ sim.promise = "resolved"

\* C9: findSimilar never returns more than limit results, whatever limit
\* is passed (0 and negative values too: then none), and no more than 5
\* when none is passed.
C9_AtMostLimit ==
    Ranked => Len(sim.value.items) <= (IF sim.limit < 0 THEN 0 ELSE sim.limit)

\* The place of the i-th record of getAll's result in the ranking: after the
\* records of a higher score and the earlier records of the same score
Place(queryVector, records, i) ==
    LET score(j) == cosineSimilarity(queryVector, records[j].vector)
    IN  1 + Cardinality({j \in 1..Len(records) :
                           \/ ScoreLess(score(i), score(j))
                           \/ (j < i /\ ~ScoreLess(score(j), score(i)))})

ExampleStore ==
    {[id |-> 1, vector |-> <<1, 0>>], [id |-> 2, vector |-> <<0, 1>>],
     [id |-> 3, vector |-> <<1, 1>>]}

\* C10: findSimilar(q, limit) is the first limit elements of the whole
\* collection in descending order of cosine similarity to q, records of
\* equal score in getAll's order; for [1,0], [0,1], [1,1] and the query
\* [1,0] that is the first, the third, the second record.
C10_Ranking ==
    (Ranked /\ sim.limit >= 0)
    => LET records == SortedByKey(store)
           items == sim.value.items
       IN  /\ Len(items) = (IF sim.limit < Len(records) THEN sim.limit ELSE Len(records))
           /\ \A i \in 1..Len(records) :
                 Place(sim.queryVector, records, i) <= sim.limit
                 => /\ items[Place(sim.queryVector, records, i)].record = records[i]
                    /\ items[Place(sim.queryVector, records, i)].score
                          = cosineSimilarity(sim.queryVector, records[i].vector)
           /\ (store = ExampleStore /\ sim.queryVector = <<1, 0>> /\ sim.limit >= 3)
              => [i \in 1..3 |-> items[i].record.id] = <<1, 3, 2>>

C10_Witness ==
    /\ Ranked
    /\ store = ExampleStore
    /\ sim.queryVector = <<1, 0>>
    /\ ~sim.hasLimit
    /\ [i \in 1..3 |-> sim.value.items[i].record.id] = <<1, 3, 2>>

\* A vector of zero magnitude: the empty vector, or all components 0
ZeroMagnitude(vec) == \A i \in 1..Len(vec) : vec[i] = 0

Zero == [num |-> 0, den |-> 1]

\* C23: the default ranker raises no error on vectors of zero magnitude (a
\* TypeError comes only from a record without a vector) and gives score 0 to
\* every record whose vector has zero magnitude, and to every record when the
\* query vector has zero magnitude, the empty vector included; those records
\* are ranked after every record with a positive score.
C23_ZeroMagnitude ==
    /\ (sim.pc = "done" /\ sim.value = VErr("TypeError"))
       => \E r \in store : ~HasVector(r)
    /\ Ranked
       => \A i \in 1..Len(sim.value.items) :
             (ZeroMagnitude(sim.queryVector) \/ ZeroMagnitude(sim.value.items[i].record.vector))
             => /\ sim.value.items[i].score = Zero
                /\ \A j \in 1..Len(sim.value.items) :
                      ScoreLess(Zero, sim.value.items[j].score) => j < i

C23_Witness ==
    /\ Ranked
    /\ ~sim.hasLimit
    /\ sim.queryVector = <<1, 1>>
    /\ Len(sim.value.items) = 3
    /\ sim.value.items[1].record = [id |-> 3, vector |-> <<1, 0>>]
    /\ sim.value.items[2].record = [id |-> 1, vector |-> <<>>]
    /\ sim.value.items[3].record = [id |-> 2, vector |-> <<0, 0>>]

\* C30: with the default ranker, findSimilar rejects, for every query
\* vector, whenever a stored record has no vector field: it does not resolve
\* with a ranking of the other records; the stored content is unchanged.
C30_MissingVectorRejects ==
    /\ [][store' = store]_vars
    /\ []((sim.pc = "done" /\ \E r \in store : ~HasVector(r))
            => /\ sim.promise = "rejected"
               /\ sim.value \in {VErr("TypeError"), VErr("UnknownError")})

C30_Witness ==
    /\ sim.pc = "done"
    /\ sim.promise = "rejected"
    /\ sim.value = VErr("TypeError")
    /\ sim.queryVector = <<>>
    /\ store = {[id |-> 1, vector |-> <<1, 0>>], [id |-> 2], [id |-> 3, vector |-> <<1, 1>>]}

(***************************************************************************)
(* Claims checked under SpecSwap                                           *)
(***************************************************************************)
\* C25: a findSimilar call ranks all the records with one ranker, the one
\* installed when its getAll completes, whichever was installed when
\* findSimilar was called.
C25_RankerAtScanCompletion ==
    [][(sim.pc = "getAll" /\ sim'.pc = "done" /\ sim'.value # VErr("UnknownError"))
       => IF sim'.promise = "resolved"
          THEN sim'.value.items
                  = Slice(Rank(ranker, sim.queryVector, SortedByKey(store)), sim.limit)
          ELSE /\ ranker = "cosine"
               /\ \E r \in store : ~HasVector(r)]_vars

\* The default ranker was installed when findSimilar was called, and the
\* ranking is that of the ranker installed meanwhile
C25_Witness ==
    /\ Ranked
    /\ sim.calledWith = "cosine"
    /\ ~sim.hasLimit
    /\ sim.queryVector = <<1, 0>>
    /\ store = ExampleStore
    /\ [i \in 1..3 |-> sim.value.items[i].record.id] = <<1, 2, 3>>

(***************************************************************************)
(* SpecRank: cosineSimilarity on pairs of vectors of any two lengths       *)
(***************************************************************************)
MaxDim == 2      \* vectors of 0..MaxDim components

Components == {-1, 0, 1}

\* number[]
RankVectors == UNION {[1..n -> Components] : n \in 0..MaxDim}

\* const score = cosineSimilarity(queryVector, vector)
Score ==
    /\ sim.pc = "call"
    /\ sim' = [pc |-> "scored", vecA |-> sim.vecA, vecB |-> sim.vecB,
               score |-> cosineSimilarity(sim.vecA, sim.vecB)]
    /\ UNCHANGED <<store, hasSchema, ops, txs, qry, db, hook, ranker>>

InitRank ==
    /\ hasSchema = FALSE
    /\ store = {}
    /\ ops = <<>>
    /\ txs = <<>>
    /\ qry = NoQuery
    /\ sim \in {[pc |-> "call", vecA |-> a, vecB |-> b] : a \in RankVectors, b \in RankVectors}
    /\ db = NoDb
    /\ hook = NoHook
    /\ ranker = DefaultRanker

NextRank == Score

SpecRank == InitRank /\ [][NextRank]_vars

(***************************************************************************)
(* Claims checked under SpecRank                                           *)
(***************************************************************************)
\* The vector with zeros after its last component, up to n components
Pad(vec, n) == [i \in 1..n |-> IF i <= Len(vec) THEN vec[i] ELSE 0]

\* The cosine similarity of two vectors of n components, as sgn(c) * c^2,
\* and 0 when one of them has zero magnitude
Cosine(a, b, n) ==
    LET d == Sum([i \in 1..n |-> a[i] * b[i]], n)
        na == Sum([i \in 1..n |-> a[i] * a[i]], n)
        nb == Sum([i \in 1..n |-> b[i] * b[i]], n)
    IN  IF na = 0 \/ nb = 0 THEN Zero
        ELSE [num |-> (IF d < 0 THEN -1 ELSE 1) * d * d, den |-> na * nb]

Longer(a, b) == IF Len(a) < Len(b) THEN Len(b) ELSE Len(a)

\* C24: for a query vector and a record vector of unequal length, whichever
\* is the longer, the score is the cosine similarity of the two vectors
\* after the shorter one is padded with zeros to the length of the longer.
C24_UnequalLengths ==
    (sim.pc = "scored" /\ Len(sim.vecA) # Len(sim.vecB))
    => LET n == Longer(sim.vecA, sim.vecB)
           padded == Cosine(Pad(sim.vecA, n), Pad(sim.vecB, n), n)
       IN  /\ sim.score.den > 0
           /\ sim.score.num * padded.den = padded.num * sim.score.den

C24_Witness ==
    /\ sim.pc = "scored"
    /\ sim.vecA = <<-1>>
    /\ sim.vecB = <<1, 1>>
    /\ sim.score = [num |-> -1, den |-> 2]

(***************************************************************************)
(* SpecRead: the calls that read (get, getAll, query, findSimilar) and     *)
(* setVectorSearchAlgorithm, interleaved, on one Store                     *)
(***************************************************************************)
\* Records with a key, a text and, but for one, a vector
ReadRecords ==
    {[id |-> 1, text |-> "a", vector |-> <<1, 0>>],
     [id |-> 2, text |-> "b", vector |-> <<1, 1>>],
     [id |-> 3, text |-> "a"]}

InitRead ==
    /\ hasSchema = FALSE
    /\ store \in SUBSET ReadRecords
    /\ ops = <<>>
    /\ txs = <<>>
    /\ qry = NoQuery
    /\ sim = NoSim
    /\ db = NoDb
    /\ hook = NoHook
    /\ ranker = DefaultRanker

NextRead ==
    \/ \E key \in Keys : get(key)
    \/ getAll
    \/ \E t \in 1..MaxOps : TxStart(t)
    \/ \E t \in 1..MaxOps : DispatchRequest(t)
    \/ \E t \in 1..MaxOps : Commit(t)
    \/ \E predicate \in {"none", "isAThrowsOnB"}, indexName \in {"", "missing"} :
          query(predicate, indexName, "next", FALSE, 0)
    \/ CursorSuccess
    \/ CursorError
    \/ QueryCommit
    \/ findSimilar(<<1, 0>>, FALSE, 0)
    \/ FindSimilarRanks
    \/ FindSimilarFails
    \/ \E algorithm \in Rankers : setVectorSearchAlgorithm(algorithm)

SpecRead == InitRead /\ [][NextRead]_vars

(***************************************************************************)
(* Claims checked under SpecRead                                           *)
(***************************************************************************)
\* C27: get, getAll, query and findSimilar open readonly transactions only
\* and, whatever their outcome, change neither the stored content, nor the
\* database's object stores and indexes, nor the Store's ranker: a step
\* that changes the ranker is a setVectorSearchAlgorithm call, which changes
\* nothing else.
C27_ReadsChangeNothing ==
    [][/\ store' = store
       /\ db' = db
       /\ \A t \in 1..Len(txs') :
             /\ t > Len(txs) => txs'[t].mode = "readonly"
             /\ txs'[t].state = "active" => txs'[t].view = store
       /\ qry'.pc # "idle" => qry'.mode = "readonly"
       /\ sim'.pc # "idle" => sim'.mode = "readonly"
       /\ ranker' # ranker
          => /\ ops' = ops /\ txs' = txs
             /\ qry' = qry /\ sim' = sim]_vars

C27_Witness ==
    /\ Len(ops) = 2
    /\ ops[1].kind = "get" /\ ops[1].promise = "resolved"
    /\ ops[2].kind = "getAll" /\ ops[2].promise = "resolved"
    /\ txs[1].state = "committed" /\ txs[2].state = "committed"
    /\ qry.pc = "done" /\ qry.promise = "resolved" /\ qry.tx = "committed"
    /\ sim.pc = "done" /\ sim.promise = "resolved"
    /\ sim.calledWith = "cosine"
    /\ ranker = "constant"
    /\ store = ReadRecords

(***************************************************************************)
(* SpecBatch: the operation of a Store.transaction call makes add, update  *)
(* and delete calls without awaiting them, some on its transaction and     *)
(* some without one; call 1 is the Store.transaction call                  *)
(***************************************************************************)
MaxBatch == 3     \* calls the operation makes

BatchRecords == [id : {1}, text : {"a", "b"}]

\* The request a method makes: add, put, delete
TypeOf(kind) ==
    IF kind = "add" THEN "add" ELSE IF kind = "update" THEN "put" ELSE "delete"

\* The transaction a call was given
OnTx(t) == [tag |-> "tx", tx |-> t]

\* Mutant: the transaction passed is ignored, const transaction =
\* db.transaction(this.storeName, "readwrite")
CallOn_OwnTransaction(kind, arg, supplied) ==
    /\ Len(ops) \in 1..MaxBatch
    /\ ops[1].pc = "fn"
    /\ ops' = Append(ops, [NewOp(kind, arg) EXCEPT
                             !.call = IF supplied THEN OnTx(1) ELSE None])
    /\ txs' = Append(txs, NewTx("readwrite",
                                <<Request(kind, TypeOf(kind), arg, FALSE)>>))
    /\ UNCHANGED <<store, hasSchema, qry, sim, db, hook, ranker>>

\* add(record, tx), update(record, tx), delete(key, tx), not awaited:
\* const transaction = tx ?? db.transaction(this.storeName, "readwrite");
\* the request is made on it, and its events settle the call's own promise.
\* On a readonly transaction, or one that is finished, making the request
\* throws inside the promise's executor and the call rejects.
CallOn(kind, arg, supplied) ==
    /\ Len(ops) \in 1..MaxBatch
    /\ ops[1].pc = "fn"
    /\ IF ~supplied
       THEN IssueWrite(kind, TypeOf(kind), arg, 0)
       ELSE IF ~Live(1) \/ txs[1].mode = "readonly"
       THEN /\ ops' = Append(ops, [NewOp(kind, arg) EXCEPT
                                    !.call = OnTx(1), !.pc = "done",
                                    !.promise = "rejected",
                                    !.value = IF Live(1) THEN VErr("ReadOnlyError")
                                              ELSE VErr("TransactionInactiveError")])
            /\ txs' = Append(txs, NoTx)
       ELSE /\ ops' = Append(ops, [NewOp(kind, arg) EXCEPT !.call = OnTx(1)])
            /\ txs' = Append([txs EXCEPT ![1].reqs =
                                 Append(@, Request(kind, TypeOf(kind), arg, Len(ops) + 1))],
                             NoTx)
    /\ UNCHANGED <<store, hasSchema, qry, sim, db, hook, ranker>>

\* The calls whose requests wait on the operation's transaction
Queued == {txs[1].reqs[i].inner : i \in 1..Len(txs[1].reqs)}

\* The engine runs the next request of the operation's transaction:
\* request.onsuccess = () => resolve(...), or request.onerror = () =>
\* reject(request.error) and the transaction aborts; the requests still
\* waiting then fail with an AbortError, and tx.onabort rejects call 1
BatchDispatch ==
    /\ Len(txs) >= 1
    /\ txs[1].state = "active"
    /\ txs[1].reqs # <<>>
    /\ LET req == Head(txs[1].reqs)
           r == Exec(txs[1].view, req)
       IN  IF r.ok
           THEN /\ txs' = [txs EXCEPT ![1].view = r.view, ![1].reqs = Tail(@)]
                /\ ops' = [ops EXCEPT ![req.inner] =
                             Settle([@ EXCEPT !.pc = "done"], "resolved",
                                    OnSuccess(req.kind, r.value))]
           ELSE /\ txs' = [txs EXCEPT ![1].state = "aborted", ![1].reqs = <<>>]
                /\ ops' = [k \in 1..Len(ops) |->
                             IF k = req.inner
                             THEN Settle([ops[k] EXCEPT !.pc = "done"], "rejected", r.value)
                             ELSE IF k \in Queued
                             THEN Settle([ops[k] EXCEPT !.pc = "done"], "rejected",
                                         VErr("AbortError"))
                             ELSE IF k = 1 THEN OnAbort(ops[k], r.value)
                             ELSE ops[k]]
    /\ UNCHANGED <<store, hasSchema, qry, sim, db, hook, ranker>>

InitBatch ==
    /\ hasSchema = FALSE
    /\ store \in {{}, {[id |-> 1, text |-> "a"]}}
    /\ ops = <<>>
    /\ txs = <<>>
    /\ qry = NoQuery
    /\ sim = NoSim
    /\ db = NoDb
    /\ hook = NoHook
    /\ ranker = DefaultRanker

NextBatch ==
    \/ \E mode \in {"readonly", "readwrite"} : ops = <<>> /\ transaction(mode)
    \/ \E record \in BatchRecords, supplied \in BOOLEAN :
          CallOn("add", VRec(record), supplied)
    \/ \E record \in BatchRecords, supplied \in BOOLEAN :
          CallOn("update", VRec(record), supplied)
    \/ \E supplied \in BOOLEAN : CallOn("delete", VKey(1), supplied)
    \/ FnReturn(1)
    \/ \E t \in 1..(MaxBatch + 1) : TxStart(t)
    \/ BatchDispatch
    \/ \E t \in 2..(MaxBatch + 1) : DispatchRequest(t)
    \/ \E t \in 1..(MaxBatch + 1) : Commit(t)

SpecBatch == InitBatch /\ [][NextBatch]_vars

(***************************************************************************)
(* Claims checked under SpecBatch                                          *)
(***************************************************************************)
\* Call k was given the operation's transaction
Supplied(k) == k > 1 /\ ops[k].call = OnTx(1)

\* The requests of the calls os[k], k in ks, applied to view in that order
RECURSIVE ApplyAll(_, _, _)
ApplyAll(view, os, ks) ==
    IF ks = <<>> THEN view
    ELSE ApplyAll(Exec(view, Request(os[Head(ks)].kind, TypeOf(os[Head(ks)].kind),
                                     os[Head(ks)].arg, Head(ks))).view,
                  os, Tail(ks))

\* The calls on the operation's transaction that have resolved, in call order
ResolvedOn ==
    SelectSeq([k \in 1..Len(ops) |-> k],
              LAMBDA k : Supplied(k) /\ ops[k].promise = "resolved")

\* C22: an add, update or delete call given a transaction makes its request
\* on that transaction, after the requests already waiting there, and
\* creates no transaction; a call given none creates one readwrite
\* transaction with its one request and touches no other transaction. The
\* requests made on the transaction given are run in the order they were
\* made: none is settled before one made earlier, and what the transaction
\* holds is what the requests run so far make of the stored content, applied
\* in call order.
C22_TransactionReuse ==
    /\ [][(Len(ops) >= 1 /\ Len(ops') = Len(ops) + 1)
          => LET n == Len(ops')
                 req == Request(ops'[n].kind, TypeOf(ops'[n].kind), ops'[n].arg, n)
             IN  IF ops'[n].call = OnTx(1)
                 THEN /\ txs'[n] = NoTx
                      /\ \A t \in 2..Len(txs) : txs'[t] = txs[t]
                      /\ (Live(1) /\ txs[1].mode = "readwrite")
                         => txs'[1] = [txs[1] EXCEPT !.reqs = Append(@, req)]
                 ELSE /\ txs'[n] = NewTx("readwrite", <<[req EXCEPT !.inner = FALSE]>>)
                      /\ \A t \in 1..Len(txs) : txs'[t] = txs[t]]_vars
    /\ [](\A j \in 1..Len(ops), k \in 1..Len(ops) :
             (j < k /\ Supplied(j) /\ Supplied(k) /\ ops[k].promise # "pending")
             => ops[j].promise # "pending")
    /\ []((Len(txs) >= 1 /\ txs[1].state = "active" /\ txs[1].mode = "readwrite")
            => txs[1].view = ApplyAll(store, ops, ResolvedOn))

\* Three calls were waiting on the transaction given at once, and all ran
C22_Witness ==
    /\ Len(ops) = 4
    /\ ops[2].kind = "add" /\ ops[3].kind = "update" /\ ops[4].kind = "delete"
    /\ \A k \in 2..4 : Supplied(k) /\ ops[k].promise = "resolved"
    /\ ops[1].after = {}
    /\ \A k \in 2..4 : ops[k].after = {}
    /\ txs[1].state = "committed"
    /\ store = {}

====
